---------------------------- MODULE Spec2Model ----------------------------
(***************************************************************************)
(* Offline-first synchronisation engine of SmartCAPI.                      *)
(*                                                                         *)
(*  - the local record store (IndexedDB object store "transcripts", keyed   *)
(*    by uuid, with an index over sync_status);                            *)
(*  - syncWithServer, in its two implementations: the service worker       *)
(*    (kind "sw") and the foreground sync service (kind "fg");             *)
(*  - AutoSyncManager, the retry scheduler of the network monitor.         *)
(*                                                                         *)
(* syncWithServer is an async function: every await is a point where other *)
(* callbacks of the same context, and the other context, may run.  One     *)
(* action of the model is one run-to-completion step between two awaits.   *)
(***************************************************************************)
EXTENDS Naturals, FiniteSets, Sequences, TLC

(* ------------------------------ bounds -------------------------------- *)

\* Number of distinct uuids the model draws from (crypto.randomUUID()).
MaxRecords == 2

\* Number of invocations of syncWithServer that may be alive at once.
MaxInv == 2

UUIDs == 1..MaxRecords
Inv == 1..MaxInv

(* --------------------------- value domains ---------------------------- *)

\* result.status as the server may send it: the three protocol values, an
\* unrecognised string and a missing field (undefined).
ProtocolStatus == {"created", "updated", "conflict"}
ServerStatus == ProtocolStatus \cup {"bogus", "missing"}

\* A 2xx response body: at most one result per uuid, "none" = no result.
Responses == [UUIDs -> ServerStatus \cup {"none"}]
NoResults == [u \in UUIDs |-> "none"]

\* The responses drawn when invocations overlap.
OverlapStatus == {"created", "conflict"}
OverlapResponses == [UUIDs -> OverlapStatus \cup {"none"}]

Kinds == {"sw", "fg"}

VARIABLES
  store,    \* object store "transcripts": a set of records
  pc,       \* pc[i]: where invocation i of syncWithServer stands
  kind,     \* kind[i]: "sw" (service worker) or "fg" (foreground service)
  batch,    \* batch[i]: pendingItems, the records read at the start
  sent,     \* sent[i]: number of POSTs to /api/sync issued by invocation i
  resp,     \* resp[i]: data.results of the 2xx response, per uuid
  ops,      \* ops[i]: updateTranscriptStatus promises not yet settled
  wrote,    \* wrote[i]: uuids whose record invocation i has put
  why,      \* why[i]: the exit path invocation i took
  outcome,  \* outcome[i]: how the promise of syncWithServer settled
  last,     \* the invocation started most recently (0: none)
  solo,     \* no other invocation was alive since `last` started
  failedUuids  \* uuids submitted in an attempt that ended in the catch block

syncVars == <<store, pc, kind, batch, sent, resp, ops, wrote, why, outcome,
              last, solo, failedUuids>>

VARIABLES
  online,      \* navigator.onLine
  cb,          \* the syncCallback given to AutoSyncManager: "failing",
               \* "flaky" or the foreground "syncWithServer"
  retryCount,  \* this.retryCount
  retryTimer,  \* this.retryTimer: "null", "live" (armed) or "stale" (fired)
  timers,      \* number of timeouts armed and not yet fired or cleared
  inflight,    \* number of attemptSync() calls awaiting syncCallback()
  retries      \* retries scheduled since the last explicit trigger

autoVars == <<online, cb, retryCount, retryTimer, timers, inflight, retries>>

VARIABLES
  platform,    \* what the browser offers: "none" | "noSync" | "full"
  registered,  \* tags registered with the SyncManager and not yet fired
  voiceStore,  \* object store "voice_registrations": uuids of its records
  wf           \* the last producing workflow or service-worker event

clientVars == <<platform, registered, voiceStore, wf>>

VARIABLES
  phase,    \* service-worker lifecycle: "parsed" | "installed" | "active"
  caches,   \* CacheStorage: cache name -> set of <<url, response>> entries
  deleted,  \* the cache names the activate handler gave to caches.delete
  served    \* what the fetch handler did with the last request

routerVars == <<phase, caches, deleted, served>>

VARIABLES
  now,              \* the client clock, Date.now()
  isOnline,         \* networkMonitor's isOnline ref
  lastOnlineTime,   \* lastOnlineTime ref: {} is null, {t} a Date
  lastOfflineTime,  \* lastOfflineTime ref: {} is null, {t} a Date
  downSince         \* history: when connectivity was last lost, {} if never

monitorVars == <<now, isOnline, lastOnlineTime, lastOfflineTime, downSince>>

VARIABLES
  dbVersion,     \* version of database "smartcapi_local": 0 is not created
  objectStores,  \* db.objectStoreNames
  db,            \* localDb.js keeps an open connection in its variable db
  call           \* the last direct call of a storage function and its result

dbVars == <<dbVersion, objectStores, db, call>>

VARIABLES
  destroyed,   \* history: destroy() has been called on the manager
  fromOnline   \* history: the attempt in flight was started by the
               \* 'online' listener of startMonitoring()

histVars == <<destroyed, fromOnline>>

VARIABLES
  interviewDB,  \* the localforage store "interviews": <<key, value>> pairs
  savedNoId     \* history: the interviews saved by a call without data.id

forageVars == <<interviewDB, savedNoId>>

vars == <<syncVars, autoVars, clientVars, routerVars, monitorVars, dbVars,
          histVars, forageVars>>

(* ------------------------- local record store ------------------------- *)

Record(u, s) == [uuid |-> u, sync_status |-> s]

\* store.get(uuid): the records stored under the key (keyPath "uuid").
Get(st, u) == {r \in st : r.uuid = u}

\* Mutant of Put: the record is added under a generated key, as an object
\* store without keyPath "uuid" would do, so an older copy is kept.
PutAppend(st, rec) == st \cup {rec}

\* store.put(record): insert, or replace the record with the same key.
Put(st, rec) == {r \in st : r.uuid # rec.uuid} \cup {rec}

\* Mutant of GetPendingTranscripts: store.getAll(), without the index.
GetAllTranscripts(st) == st

\* index("sync_status").getAll("pending")
GetPendingTranscripts(st) == {r \in st : r.sync_status = "pending"}

\* Mutant of SetStatus: a record that becomes synced is removed.
SetStatusDropsSynced(st, u, s) ==
  IF s = "synced" THEN {r \in st : r.uuid # u}
  ELSE {r \in st : r.uuid # u}
       \cup {[r EXCEPT !.sync_status = s] : r \in {q \in st : q.uuid = u}}

\* The get/put pair of updateTranscriptStatus, inside one readwrite
\* transaction: record.sync_status = status; store.put(record).
SetStatus(st, u, s) ==
  LET found == Get(st, u)
  IN  IF found = {} THEN st
      ELSE LET record == CHOOSE r \in found : TRUE
           IN  Put(st, [record EXCEPT !.sync_status = s])

UuidsOf(st) == {r.uuid : r \in st}
StatusOf(st, u) ==
  IF Get(st, u) = {} THEN "absent"
  ELSE (CHOOSE r \in Get(st, u) : TRUE).sync_status

(* --------------------------- syncWithServer --------------------------- *)

\* Mutant of SwNewStatus: only 'created' counts as success.
SwNewStatusCreatedOnly(status) ==
  IF status = "created" THEN "synced" ELSE "conflict"

\* The status the service worker writes for a result (part_002:83).
SwNewStatus(status) ==
  IF status = "created" \/ status = "updated" THEN "synced" ELSE "conflict"

\* The updates the service worker issues for data.results.
SwUpdates(f) ==
  {<<u, SwNewStatus(f[u])>> : u \in {v \in UUIDs : f[v] # "none"}}

\* The updates the foreground service issues (syncService.js:30-36): a
\* result that is neither created/updated nor conflict issues nothing.
FgUpdates(f) ==
  {<<u, "synced">> : u \in {v \in UUIDs : f[v] \in {"created", "updated"}}}
  \cup {<<u, "conflict">> : u \in {v \in UUIDs : f[v] = "conflict"}}

\* Mutant of Updates: a uuid without a result is treated as a conflict.
UpdatesNoResultIsConflict(k, f) ==
  {<<u, IF f[u] \in {"created", "updated"} THEN "synced" ELSE "conflict">> :
     u \in UUIDs}

Updates(k, f) == IF k = "sw" THEN SwUpdates(f) ELSE FgUpdates(f)

\* The catch block: the service worker rethrows, the foreground service
\* only logs, so its promise resolves.
CatchOutcome(k) == IF k = "sw" THEN "rejected" ELSE "resolved"

Quiet(i) == pc[i] \in {"idle", "done"} /\ ops[i] = {}

\* syncWithServer() is called: getPendingTranscripts() is awaited.
Invoke(i, k) ==
  /\ Quiet(i)
  /\ pc' = [pc EXCEPT ![i] = "read"]
  /\ kind' = [kind EXCEPT ![i] = k]
  /\ batch' = [batch EXCEPT ![i] = {}]
  /\ sent' = [sent EXCEPT ![i] = 0]
  /\ resp' = [resp EXCEPT ![i] = NoResults]
  /\ wrote' = [wrote EXCEPT ![i] = {}]
  /\ why' = [why EXCEPT ![i] = "none"]
  /\ outcome' = [outcome EXCEPT ![i] = "none"]
  /\ last' = i
  /\ solo' = (\A j \in Inv \ {i} : Quiet(j))
  /\ UNCHANGED <<ops, failedUuids>>

\* syncWithServer() called on its own: by a test, a page or a timer.
Start(i, k) ==
  /\ Invoke(i, k)
  /\ UNCHANGED store
  /\ UNCHANGED <<autoVars, clientVars, routerVars, monitorVars, dbVars,
                 histVars, forageVars>>

\* Mutant of ReadPending: the empty-list return is missing, so an empty
\* batch is posted.
ReadPendingPostsEmpty(i) ==
  /\ pc[i] = "read"
  /\ batch' = [batch EXCEPT ![i] = GetPendingTranscripts(store)]
  /\ pc' = [pc EXCEPT ![i] = "fetch"]
  /\ sent' = [sent EXCEPT ![i] = @ + 1]
  /\ UNCHANGED <<store, kind, resp, ops, wrote, why, outcome, last, solo, failedUuids>>
  /\ UNCHANGED <<autoVars, clientVars, routerVars, monitorVars, dbVars,
                 histVars, forageVars>>

\* Mutant of ReadPending: one POST per pending record instead of one batch.
ReadPendingPostsPerRecord(i) ==
  /\ pc[i] = "read"
  /\ LET pendingItems == GetPendingTranscripts(store)
     IN  /\ batch' = [batch EXCEPT ![i] = pendingItems]
         /\ IF pendingItems = {}
            THEN /\ pc' = [pc EXCEPT ![i] = "done"]
                 /\ why' = [why EXCEPT ![i] = "empty"]
                 /\ outcome' = [outcome EXCEPT ![i] = "resolved"]
                 /\ sent' = sent
            ELSE /\ pc' = [pc EXCEPT ![i] = "fetch"]
                 /\ sent' = [sent EXCEPT ![i] = @ + Cardinality(pendingItems)]
                 /\ UNCHANGED <<why, outcome>>
  /\ UNCHANGED <<store, kind, resp, ops, wrote, last, solo, failedUuids>>
  /\ UNCHANGED <<autoVars, clientVars, routerVars, monitorVars, dbVars,
                 histVars, forageVars>>

\* Mutant of ReadPending: an in-flight guard; the records another running
\* invocation holds in its batch are left out.
ReadPendingSkipsInFlight(i) ==
  /\ pc[i] = "read"
  /\ LET held == UNION {batch[j] : j \in {k \in Inv \ {i} :
                                             pc[k] \in {"fetch", "apply"}}}
         pendingItems == GetPendingTranscripts(store) \ held
     IN  /\ batch' = [batch EXCEPT ![i] = pendingItems]
         /\ IF pendingItems = {}
            THEN /\ pc' = [pc EXCEPT ![i] = "done"]
                 /\ why' = [why EXCEPT ![i] = "empty"]
                 /\ outcome' = [outcome EXCEPT ![i] = "resolved"]
                 /\ sent' = sent
            ELSE /\ pc' = [pc EXCEPT ![i] = "fetch"]
                 /\ sent' = [sent EXCEPT ![i] = @ + 1]
                 /\ UNCHANGED <<why, outcome>>
  /\ UNCHANGED <<store, kind, resp, ops, wrote, last, solo, failedUuids>>
  /\ UNCHANGED <<autoVars, clientVars, routerVars, monitorVars, dbVars,
                 histVars, forageVars>>

\* getPendingTranscripts() resolves.  An empty list returns at once; else
\* the POST is issued with the whole list as its items.
ReadPending(i) ==
  /\ pc[i] = "read"
  /\ LET pendingItems == GetPendingTranscripts(store)
     IN  /\ batch' = [batch EXCEPT ![i] = pendingItems]
         /\ IF pendingItems = {}
            THEN /\ pc' = [pc EXCEPT ![i] = "done"]
                 /\ why' = [why EXCEPT ![i] = "empty"]
                 /\ outcome' = [outcome EXCEPT ![i] = "resolved"]
                 /\ sent' = sent
            ELSE /\ pc' = [pc EXCEPT ![i] = "fetch"]
                 /\ sent' = [sent EXCEPT ![i] = @ + 1]
                 /\ UNCHANGED <<why, outcome>>
  /\ UNCHANGED <<store, kind, resp, ops, wrote, last, solo, failedUuids>>
  /\ UNCHANGED <<autoVars, clientVars, routerVars, monitorVars, dbVars,
                 histVars, forageVars>>

\* getPendingTranscripts() rejects (the database cannot be opened, or the
\* index read fails).  The await stands outside the try block.
ReadFails(i) ==
  /\ pc[i] = "read"
  /\ pc' = [pc EXCEPT ![i] = "done"]
  /\ why' = [why EXCEPT ![i] = "readerr"]
  /\ outcome' = [outcome EXCEPT ![i] = "rejected"]
  /\ UNCHANGED <<store, kind, batch, sent, resp, ops, wrote, last, solo, failedUuids>>
  /\ UNCHANGED <<autoVars, clientVars, routerVars, monitorVars, dbVars,
                 histVars, forageVars>>

\* Mutant of PostFails: the batch is marked synced although the POST failed.
PostFailsMarksSynced(i) ==
  /\ pc[i] = "fetch"
  /\ pc' = [pc EXCEPT ![i] = "done"]
  /\ why' = [why EXCEPT ![i] = "postfail"]
  /\ outcome' = [outcome EXCEPT ![i] = "rejected"]
  /\ store' = {IF r \in batch[i] THEN [r EXCEPT !.sync_status = "synced"]
               ELSE r : r \in store}
  /\ failedUuids' = failedUuids \cup UuidsOf(batch[i])
  /\ UNCHANGED <<kind, batch, sent, resp, ops, wrote, last, solo>>
  /\ UNCHANGED <<autoVars, clientVars, routerVars, monitorVars, dbVars,
                 histVars, forageVars>>

\* fetch() rejects (transport failure) or the response is not ok.
PostFails(i) ==
  /\ pc[i] = "fetch"
  /\ pc' = [pc EXCEPT ![i] = "done"]
  /\ why' = [why EXCEPT ![i] = "postfail"]
  /\ outcome' = [outcome EXCEPT ![i] = CatchOutcome(kind[i])]
  /\ failedUuids' = failedUuids \cup UuidsOf(batch[i])
  /\ UNCHANGED <<store, kind, batch, sent, resp, ops, wrote, last, solo>>
  /\ UNCHANGED <<autoVars, clientVars, routerVars, monitorVars, dbVars,
                 histVars, forageVars>>

\* A 2xx response whose body is not JSON or has no results list:
\* response.json() rejects or data.results.map throws; the catch block runs.
PostMalformed(i) ==
  /\ pc[i] = "fetch"
  /\ pc' = [pc EXCEPT ![i] = "done"]
  /\ why' = [why EXCEPT ![i] = "malformed"]
  /\ outcome' = [outcome EXCEPT ![i] = CatchOutcome(kind[i])]
  /\ failedUuids' = failedUuids \cup UuidsOf(batch[i])
  /\ UNCHANGED <<store, kind, batch, sent, resp, ops, wrote, last, solo>>
  /\ UNCHANGED <<autoVars, clientVars, routerVars, monitorVars, dbVars,
                 histVars, forageVars>>

\* A 2xx response with results f: data.results.map(...) issues every
\* update at once, then Promise.all is awaited.
PostOk(i, f) ==
  /\ pc[i] = "fetch"
  /\ resp' = [resp EXCEPT ![i] = f]
  /\ LET promises == Updates(kind[i], f)
     IN  /\ ops' = [ops EXCEPT ![i] = promises]
         /\ IF promises = {}
            THEN /\ pc' = [pc EXCEPT ![i] = "done"]
                 /\ why' = [why EXCEPT ![i] = "applied"]
                 /\ outcome' = [outcome EXCEPT ![i] = "resolved"]
            ELSE /\ pc' = [pc EXCEPT ![i] = "apply"]
                 /\ UNCHANGED <<why, outcome>>
  /\ UNCHANGED <<store, kind, batch, sent, wrote, last, solo, failedUuids>>
  /\ UNCHANGED <<autoVars, clientVars, routerVars, monitorVars, dbVars,
                 histVars, forageVars>>

\* Mutant of Found: the result of store.get is not tested.
FoundAlways(st, u) == TRUE

\* updateTranscriptStatus: `if (record)` on the result of store.get(uuid).
Found(st, u) == Get(st, u) # {}

\* One updateTranscriptStatus(uuid, status) finds its record and puts it.
\* When it was the last one awaited, Promise.all resolves.
ApplyUpdate(i, op) ==
  /\ op \in ops[i]
  /\ Found(store, op[1])
  /\ store' = SetStatus(store, op[1], op[2])
  /\ ops' = [ops EXCEPT ![i] = @ \ {op}]
  /\ wrote' = [wrote EXCEPT ![i] = @ \cup {op[1]}]
  /\ IF pc[i] = "apply" /\ ops[i] = {op}
     THEN /\ pc' = [pc EXCEPT ![i] = "done"]
          /\ why' = [why EXCEPT ![i] = "applied"]
          /\ outcome' = [outcome EXCEPT ![i] = "resolved"]
     ELSE UNCHANGED <<pc, why, outcome>>
  /\ UNCHANGED <<kind, batch, sent, resp, last, solo, failedUuids>>
  /\ UNCHANGED <<autoVars, clientVars, routerVars, monitorVars, dbVars,
                 histVars, forageVars>>

\* One updateTranscriptStatus rejects: no record under the uuid ("Record not
\* found"), or the database fails.  Promise.all rejects on the first
\* rejection; the updates still in flight go on on their own.
ApplyFails(i, op) ==
  /\ op \in ops[i]
  /\ ops' = [ops EXCEPT ![i] = @ \ {op}]
  /\ IF pc[i] = "apply"
     THEN /\ pc' = [pc EXCEPT ![i] = "done"]
          /\ why' = [why EXCEPT ![i] = "applyfail"]
          /\ outcome' = [outcome EXCEPT ![i] = CatchOutcome(kind[i])]
          /\ failedUuids' = failedUuids \cup UuidsOf(batch[i])
     ELSE UNCHANGED <<pc, why, outcome, failedUuids>>
  /\ UNCHANGED <<store, kind, batch, sent, resp, wrote, last, solo>>
  /\ UNCHANGED <<autoVars, clientVars, routerVars, monitorVars, dbVars,
                 histVars, forageVars>>

\* saveTranscript(speaker_id, text): a record with a fresh uuid is put with
\* sync_status "pending".
SaveTranscript(u) ==
  /\ u \notin UuidsOf(store)
  /\ store' = Put(store, Record(u, "pending"))
  /\ UNCHANGED <<pc, kind, batch, sent, resp, ops, wrote, why, outcome,
                 last, solo, failedUuids>>
  /\ UNCHANGED <<autoVars, clientVars, routerVars, monitorVars, dbVars,
                 histVars, forageVars>>

SyncInit ==
  /\ store = {}
  /\ pc = [i \in Inv |-> "idle"]
  /\ kind = [i \in Inv |-> "sw"]
  /\ batch = [i \in Inv |-> {}]
  /\ sent = [i \in Inv |-> 0]
  /\ resp = [i \in Inv |-> NoResults]
  /\ ops = [i \in Inv |-> {}]
  /\ wrote = [i \in Inv |-> {}]
  /\ why = [i \in Inv |-> "none"]
  /\ outcome = [i \in Inv |-> "none"]
  /\ last = 0
  /\ solo = TRUE
  /\ failedUuids = {}

\* AutoSyncManager not constructed.
AutoIdle ==
  /\ online = TRUE
  /\ cb = "failing"
  /\ retryCount = 0
  /\ retryTimer = "null"
  /\ timers = 0
  /\ inflight = 0
  /\ retries = 0

\* One invocation at a time, as the orchestrator's concurrency contract
\* assumes: syncWithServer is called only when nothing else is alive.
SeqStart(k) ==
  /\ \A j \in Inv : Quiet(j)
  /\ Start(1, k)

SeqNext ==
  \/ \E k \in Kinds : SeqStart(k)
  \/ \E i \in Inv : ReadPending(i)
  \/ \E i \in Inv : ReadFails(i)
  \/ \E i \in Inv : PostFails(i)
  \/ \E i \in Inv : PostMalformed(i)
  \/ \E i \in Inv, f \in Responses : PostOk(i, f)
  \/ \E i \in Inv, op \in UUIDs \X {"synced", "conflict"} : ApplyUpdate(i, op)
  \/ \E i \in Inv, op \in UUIDs \X {"synced", "conflict"} : ApplyFails(i, op)
  \/ \E u \in UUIDs : SaveTranscript(u)

\* Overlapping invocations (a sync event, a periodic sync, a direct call):
\* any quiet slot may start while the others are alive.
OverlapNext ==
  \/ \E i \in Inv, k \in Kinds : Start(i, k)
  \/ \E i \in Inv : ReadPending(i)
  \/ \E i \in Inv : ReadFails(i)
  \/ \E i \in Inv : PostFails(i)
  \/ \E i \in Inv : PostMalformed(i)
  \/ \E i \in Inv, f \in OverlapResponses : PostOk(i, f)
  \/ \E i \in Inv, op \in UUIDs \X {"synced", "conflict"} : ApplyUpdate(i, op)
  \/ \E i \in Inv, op \in UUIDs \X {"synced", "conflict"} : ApplyFails(i, op)
  \/ \E u \in UUIDs : SaveTranscript(u)

\* No page has produced a record and no sync event has fired.
NoWorkflow ==
  [who |-> "none", uuid |-> 0, fault |-> "none", tag |-> "none",
   told |-> FALSE, posted |-> FALSE, asked |-> FALSE, invoked |-> FALSE,
   threw |-> FALSE]

ClientIdle ==
  /\ platform = "full"
  /\ registered = {}
  /\ voiceStore = {}
  /\ wf = NoWorkflow

\* The fetch handler has seen no request.
NoFetch ==
  [req |-> [method |-> "none", path |-> <<>>, search |-> "", mode |-> "none"],
   class |-> "none", responded |-> FALSE, first |-> "none", net |-> "none",
   hit |-> "unread", cacheWrote |-> FALSE, body |-> "none"]

\* The service worker script has been parsed; no cache exists.
RouterIdle ==
  /\ phase = "parsed"
  /\ caches = [n \in {} |-> {}]
  /\ deleted = {}
  /\ served = NoFetch

\* The monitor was loaded online at time 0 and has seen no event.
MonitorIdle ==
  /\ now = 0
  /\ isOnline = TRUE
  /\ lastOnlineTime = {}
  /\ lastOfflineTime = {}
  /\ downSince = {}

DB_NAME == "smartcapi_local"
STORE_NAME == "transcripts"
VOICE_STORE_NAME == "voice_registrations"

NoCall ==
  [fn |-> "none", impl |-> "none", fault |-> "none", settled |-> "none",
   value |-> {}]

\* The page has opened the database and created the transcript store; no
\* storage function is called directly.
DbIdle ==
  /\ dbVersion = 1
  /\ objectStores = {STORE_NAME}
  /\ db = TRUE
  /\ call = NoCall

\* The manager has not been destroyed and no attempt is in flight.
HistIdle ==
  /\ destroyed = FALSE
  /\ fromOnline = FALSE

\* The localforage store is empty.
ForageIdle ==
  /\ interviewDB = {}
  /\ savedNoId = {}

Idle == MonitorIdle /\ DbIdle /\ HistIdle /\ ForageIdle

Init == SyncInit /\ AutoIdle /\ ClientIdle /\ RouterIdle /\ Idle
Next == SeqNext
Spec == Init /\ [][Next]_vars

SpecOverlap == Init /\ [][OverlapNext]_vars

(* -------------------------- AutoSyncManager --------------------------- *)

\* this.maxRetries = options.maxRetries || 5: the configured cap.
maxRetries == 2

\* attemptSync() calls that may await their callback at the same time.
MaxInflight == 2

\* clearRetryTimer(): clearTimeout on a live timer disarms it; on a fired
\* one it does nothing.  The field is set to null either way.
TimersAfterClear == IF retryTimer = "live" THEN timers - 1 ELSE timers

\* Mutant of ScheduleRetry: the previous timer is not cleared and the cap
\* is tested after the increment.
ScheduleRetryKeepsTimer ==
  IF retryCount > maxRetries
  THEN /\ retryCount' = 0
       /\ UNCHANGED <<retryTimer, timers, retries>>
  ELSE /\ retryCount' = retryCount + 1
       /\ timers' = timers + 1
       /\ retryTimer' = "live"
       /\ retries' = retries + 1

\* scheduleRetry(): at the cap the count is reset and nothing is armed;
\* below it the count grows, the old timer is cleared and a new one armed.
ScheduleRetry ==
  IF retryCount >= maxRetries
  THEN /\ retryCount' = 0
       /\ UNCHANGED <<retryTimer, timers, retries>>
  ELSE /\ retryCount' = retryCount + 1
       /\ timers' = TimersAfterClear + 1
       /\ retryTimer' = "live"
       /\ retries' = retries + 1

\* attemptSync() up to its await: offline returns at once, online calls
\* the callback.
AttemptSync ==
  IF ~online THEN inflight' = inflight ELSE inflight' = inflight + 1

\* window 'offline' event.
GoOffline ==
  /\ online
  /\ online' = FALSE
  /\ UNCHANGED <<cb, retryCount, retryTimer, timers, inflight, retries>>
  /\ UNCHANGED <<syncVars, clientVars, routerVars, monitorVars, dbVars,
                 histVars, forageVars>>

\* window 'online' event: the listener of startMonitoring() runs
\* attemptSync().  An explicit trigger.
GoOnline ==
  /\ ~online
  /\ inflight < MaxInflight
  /\ online' = TRUE
  /\ inflight' = inflight + 1
  /\ retries' = 0
  /\ UNCHANGED <<cb, retryCount, retryTimer, timers>>
  /\ UNCHANGED <<syncVars, clientVars, routerVars, monitorVars, dbVars,
                 histVars, forageVars>>

\* A caller invokes attemptSync() directly.  An explicit trigger.
ExplicitAttempt ==
  /\ inflight < MaxInflight
  /\ AttemptSync
  /\ retries' = 0
  /\ UNCHANGED <<online, cb, retryCount, retryTimer, timers>>
  /\ UNCHANGED <<syncVars, clientVars, routerVars, monitorVars, dbVars,
                 histVars, forageVars>>

\* The retry timeout fires: its callback runs attemptSync().  The field
\* retryTimer keeps the id of the fired timer.
TimerFires ==
  /\ timers > 0
  /\ inflight < MaxInflight
  /\ timers' = timers - 1
  /\ retryTimer' = "stale"
  /\ AttemptSync
  /\ UNCHANGED <<online, cb, retryCount, retries>>
  /\ UNCHANGED <<syncVars, clientVars, routerVars, monitorVars, dbVars,
                 histVars, forageVars>>

\* await this.syncCallback() resolves: the count is reset, the timer cleared.
CallbackOk ==
  /\ inflight > 0
  /\ cb = "flaky"
  /\ inflight' = inflight - 1
  /\ retryCount' = 0
  /\ timers' = TimersAfterClear
  /\ retryTimer' = "null"
  /\ UNCHANGED <<online, cb, retries>>
  /\ UNCHANGED <<syncVars, clientVars, routerVars, monitorVars, dbVars,
                 histVars, forageVars>>

\* await this.syncCallback() rejects: scheduleRetry().
CallbackFails ==
  /\ inflight > 0
  /\ retries <= maxRetries
  /\ inflight' = inflight - 1
  /\ ScheduleRetry
  /\ UNCHANGED <<online, cb>>
  /\ UNCHANGED <<syncVars, clientVars, routerVars, monitorVars, dbVars,
                 histVars, forageVars>>

\* destroy(): clearRetryTimer().
Destroy ==
  /\ retryTimer # "null"
  /\ timers' = TimersAfterClear
  /\ retryTimer' = "null"
  /\ UNCHANGED <<online, cb, retryCount, inflight, retries>>
  /\ UNCHANGED <<syncVars, clientVars, routerVars, monitorVars, dbVars,
                 histVars, forageVars>>

\* new AutoSyncManager(syncCallback, options)
AutoInit ==
  /\ online \in BOOLEAN
  /\ cb \in {"failing", "flaky"}
  /\ retryCount = 0
  /\ retryTimer = "null"
  /\ timers = 0
  /\ inflight = 0
  /\ retries = 0

AutoNext ==
  \/ GoOffline
  \/ GoOnline
  \/ ExplicitAttempt
  \/ TimerFires
  \/ CallbackOk
  \/ CallbackFails
  \/ Destroy

InitAuto == SyncInit /\ AutoInit /\ ClientIdle /\ RouterIdle /\ Idle
SpecAuto == InitAuto /\ [][AutoNext]_vars

(* ---------------- producing workflows and sync triggers ---------------- *)

\* "none": no service worker support; "noSync": service workers without
\* the Background Sync API; "full": both.
Platforms == {"none", "noSync", "full"}

\* The tags the client passes to registration.sync.register.
SyncTags == {"transcript-sync", "voice-sync"}

\* The tag the periodicsync listener knows.
PeriodicTags == {"transcript-periodic-sync"}

\* How the local write goes: "open" (indexedDB.open fails), "put" (the put
\* request fails with an error event), "none".
Faults == {"none", "open", "put"}

\* The variables of the syncWithServer invocations, without the store.
invVars == <<pc, kind, batch, sent, resp, ops, wrote, why, outcome,
             last, solo, failedUuids>>

\* saveTranscript of localDb: `await initDB()` rejects when the open fails;
\* `await store.put(record)` awaits an IDBRequest, which is not a promise,
\* so the error event of the put is never observed and the call resolves.
SaveTranscriptRejects(fault) == fault = "open"

\* saveToIndexedDB and saveVoiceToIndexedDB: a failed open is rethrown and
\* request.onerror rejects.
SaveToIndexedDBRejects(fault) == fault # "none"

\* registerBackgroundSync: 'serviceWorker' in navigator &&
\* 'SyncManager' in window.
HasSyncManager(p) == p = "full"

\* requestBackgroundSync of the pages: 'serviceWorker' in navigator &&
\* 'sync' in self.registration.  In a page `self` is the window, which has
\* no property `registration`: once the left operand holds, the `in`
\* operator throws a TypeError.
PageSyncTest(p) == IF p = "none" THEN "skip" ELSE "throws"

\* addTranscript of the interview store: saveTranscript, then
\* registerBackgroundSync, both inside one try; the catch only logs.
AddTranscript(u, fault, regOk) ==
  /\ u \notin UuidsOf(store)
  /\ \A j \in Inv : Quiet(j)
  /\ store' = IF fault = "none" THEN Put(store, Record(u, "pending"))
              ELSE store
  /\ LET w == [NoWorkflow EXCEPT !.who = "addTranscript", !.uuid = u,
                                 !.fault = fault]
     IN  IF SaveTranscriptRejects(fault)
         THEN /\ wf' = [w EXCEPT !.told = TRUE]
              /\ UNCHANGED <<registered, invVars>>
         ELSE IF HasSyncManager(platform)
         THEN /\ wf' = [w EXCEPT !.asked = TRUE, !.tag = "transcript-sync"]
              /\ registered' = IF regOk
                               THEN registered \cup {"transcript-sync"}
                               ELSE registered
              /\ UNCHANGED invVars
         ELSE /\ wf' = [w EXCEPT !.asked = TRUE, !.invoked = TRUE]
              /\ Invoke(1, "fg")
              /\ UNCHANGED registered
  /\ UNCHANGED <<platform, voiceStore>>
  /\ UNCHANGED <<autoVars, routerVars, monitorVars, dbVars, histVars,
                 forageVars>>

\* What confirmSubmit and finishRegistration do once the local save has
\* resolved: POST to /api/interviews when navigator.onLine; when the POST
\* fails, or offline, `await requestBackgroundSync()` with the page's tag.
PageAfterSave(who, u, tag, onLine, postOk) ==
  LET direct == onLine /\ postOk
      test == PageSyncTest(platform)
  IN  [NoWorkflow EXCEPT !.who = who, !.uuid = u,
                         !.posted = onLine,
                         !.asked = ~direct,
                         !.tag = IF direct THEN "none" ELSE tag,
                         !.threw = ~direct /\ test = "throws"]

\* The tags registered after the page's requestBackgroundSync: the branch
\* that registers is entered only when the page's test passes.
PageRegistered(tag, onLine, postOk) ==
  IF ~(onLine /\ postOk) /\ PageSyncTest(platform) = "pass"
  THEN registered \cup {tag}
  ELSE registered

\* confirmSubmit of the interview page: a failed save alerts and returns.
ConfirmSubmit(u, fault, onLine, postOk) ==
  /\ u \notin UuidsOf(store)
  /\ IF SaveToIndexedDBRejects(fault)
     THEN /\ wf' = [NoWorkflow EXCEPT !.who = "confirmSubmit", !.uuid = u,
                                      !.fault = fault, !.told = TRUE]
          /\ UNCHANGED <<store, registered>>
     ELSE /\ store' = Put(store, Record(u, "pending"))
          /\ wf' = PageAfterSave("confirmSubmit", u, "transcript-sync",
                                 onLine, postOk)
          /\ registered' = PageRegistered("transcript-sync", onLine, postOk)
  /\ UNCHANGED <<invVars, platform, voiceStore>>
  /\ UNCHANGED <<autoVars, routerVars, monitorVars, dbVars, histVars,
                 forageVars>>

\* finishRegistration of the voice-registration page: the record goes to
\* the object store "voice_registrations", the tag is 'voice-sync'.
FinishRegistration(u, fault, onLine, postOk) ==
  /\ u \notin voiceStore
  /\ IF SaveToIndexedDBRejects(fault)
     THEN /\ wf' = [NoWorkflow EXCEPT !.who = "finishRegistration",
                                      !.uuid = u, !.fault = fault,
                                      !.told = TRUE]
          /\ UNCHANGED <<voiceStore, registered>>
     ELSE /\ voiceStore' = voiceStore \cup {u}
          /\ wf' = PageAfterSave("finishRegistration", u, "voice-sync",
                                 onLine, postOk)
          /\ registered' = PageRegistered("voice-sync", onLine, postOk)
  /\ UNCHANGED <<store, invVars, platform>>
  /\ UNCHANGED <<autoVars, routerVars, monitorVars, dbVars, histVars,
                 forageVars>>

\* The service worker's sync listener: the platform fires a sync event and
\* decides its tag; only 'transcript-sync' reaches
\* event.waitUntil(syncWithServer()).
SyncEvent(tag) ==
  /\ \A j \in Inv : Quiet(j)
  /\ registered' = registered \ {tag}
  /\ LET w == [NoWorkflow EXCEPT !.who = "sync", !.tag = tag]
     IN  IF tag = "transcript-sync"
         THEN /\ wf' = [w EXCEPT !.invoked = TRUE]
              /\ Invoke(1, "sw")
         ELSE /\ wf' = w
              /\ UNCHANGED invVars
  /\ UNCHANGED <<store, platform, voiceStore>>
  /\ UNCHANGED <<autoVars, routerVars, monitorVars, dbVars, histVars,
                 forageVars>>

\* The periodicsync listener, for 'transcript-periodic-sync'.
PeriodicSyncEvent(tag) ==
  /\ \A j \in Inv : Quiet(j)
  /\ LET w == [NoWorkflow EXCEPT !.who = "periodicsync", !.tag = tag]
     IN  IF tag = "transcript-periodic-sync"
         THEN /\ wf' = [w EXCEPT !.invoked = TRUE]
              /\ Invoke(1, "sw")
         ELSE /\ wf' = w
              /\ UNCHANGED invVars
  /\ UNCHANGED <<store, platform, registered, voiceStore>>
  /\ UNCHANGED <<autoVars, routerVars, monitorVars, dbVars, histVars,
                 forageVars>>

\* The browser is any of the three platforms.
ClientInit ==
  /\ platform \in Platforms
  /\ registered = {}
  /\ voiceStore = {}
  /\ wf = NoWorkflow

ClientNext ==
  \/ \E u \in UUIDs, fault \in Faults, regOk \in BOOLEAN :
       AddTranscript(u, fault, regOk)
  \/ \E u \in UUIDs, fault \in Faults, onLine \in BOOLEAN,
        postOk \in BOOLEAN :
       ConfirmSubmit(u, fault, onLine, postOk)
  \/ \E u \in UUIDs, fault \in Faults, onLine \in BOOLEAN,
        postOk \in BOOLEAN :
       FinishRegistration(u, fault, onLine, postOk)
  \/ \E tag \in SyncTags : SyncEvent(tag)
  \/ \E tag \in PeriodicTags : PeriodicSyncEvent(tag)
  \/ \E i \in Inv : ReadPending(i)
  \/ \E i \in Inv : ReadFails(i)
  \/ \E i \in Inv : PostFails(i)
  \/ \E i \in Inv : PostMalformed(i)
  \/ \E i \in Inv, f \in OverlapResponses : PostOk(i, f)
  \/ \E i \in Inv, op \in UUIDs \X {"synced", "conflict"} : ApplyUpdate(i, op)
  \/ \E i \in Inv, op \in UUIDs \X {"synced", "conflict"} : ApplyFails(i, op)

InitClient == SyncInit /\ AutoIdle /\ ClientInit /\ RouterIdle /\ Idle
SpecClient == InitClient /\ [][ClientNext]_vars

(* --------------- service worker: caches and request router -------------- *)

CACHE_NAME == "smartcapi-v1"

\* A pathname is the sequence of its separators and segments:
\* '/icons/smartcapi-icon.png' is <<"/", "icons", "/", "smartcapi-icon.png">>.
Root == <<"/">>
IndexHtml == <<"/", "index.html">>
OfflineHtml == <<"/", "offline.html">>

STATIC_FILES ==
  {Root, IndexHtml, OfflineHtml, <<"/", "manifest.json">>,
   <<"/", "icons", "/", "smartcapi-icon.png">>,
   <<"/", "icons", "/", "smartcapi-logo.png">>}

ApiPrefix == <<"/", "api", "/">>
ApiInterviews == <<"/", "api", "/", "interviews">>
ApiInterviewsSlash == <<"/", "api", "/", "interviews", "/">>
AppJs == <<"/", "assets", "/", "app.js">>

\* The requests the pages send through the router.  A query string is part
\* of the cache key and not of the pathname.
Pathnames == {Root, IndexHtml, ApiInterviews, ApiInterviewsSlash, AppJs}
Requests ==
  {r \in [method : {"GET", "POST"}, path : Pathnames, search : {"", "?v=2"},
          mode : {"navigate", "cors"}] :
     r.search = "" \/ r.path = IndexHtml}

\* What fetch(event.request) does when it is called: a 2xx response, a
\* response with another status, or a rejection.
NetOutcomes == {"ok", "httpError", "fail"}

\* The caches another version, or an earlier install of this one, left.
CacheNames == {CACHE_NAME, "smartcapi-v0", "runtime"}
PriorContents == {{}, {<<<<AppJs, "">>, "ok">>}}
PriorCaches == UNION {[D -> PriorContents] : D \in SUBSET CacheNames}

\* String.prototype.endsWith / startsWith on pathnames.
EndsWith(p, f) ==
  Len(p) >= Len(f) /\ SubSeq(p, Len(p) - Len(f) + 1, Len(p)) = f
StartsWith(p, f) ==
  Len(p) >= Len(f) /\ SubSeq(p, 1, Len(f)) = f

\* STATIC_FILES.some(file => url.pathname.endsWith(file) ||
\*                           url.pathname === file)
IsStatic(p) == \E file \in STATIC_FILES : EndsWith(p, file) \/ p = file

\* url.pathname.startsWith('/api/')
IsApi(p) == StartsWith(p, ApiPrefix)

\* The key of a request in a cache: its URL, query string included.
Url(r) == <<r.path, r.search>>

\* caches.open(name): the cache is created when it does not exist.
Open(cs, name) ==
  [n \in DOMAIN cs \cup {name} |-> IF n \in DOMAIN cs THEN cs[n] ELSE {}]

\* caches.open(name).then(cache => cache.put(request, response))
CachePut(cs, name, url, response) ==
  [n \in DOMAIN cs \cup {name} |->
     IF n = name
     THEN {e \in Open(cs, name)[name] : e[1] # url} \cup {<<url, response>>}
     ELSE cs[n]]

\* caches.match(request) finds a response in some cache.
Hit(cs, url) == \E n \in DOMAIN cs : \E e \in cs[n] : e[1] = url

\* caches.match('/offline.html'): the page, or undefined.
OfflinePage(cs) ==
  IF Hit(cs, <<OfflineHtml, "">>) THEN "offlinePage" ELSE "nothing"

Answer(r, class, first, net, hit, put, body) ==
  [req |-> r, class |-> class, responded |-> TRUE, first |-> first,
   net |-> net, hit |-> hit, cacheWrote |-> put, body |-> body]

\* Strategy 1, cache-first.
CacheFirst(r, net, cs) ==
  IF Hit(cs, Url(r))
  THEN [answer |-> Answer(r, "static", "cache", "none", "hit", FALSE,
                          "cached"),
        caches |-> cs]
  ELSE IF net # "fail"
  THEN [answer |-> Answer(r, "static", "cache", net, "miss", TRUE,
                          "network"),
        caches |-> CachePut(cs, CACHE_NAME, Url(r), net)]
  ELSE [answer |-> Answer(r, "static", "cache", net, "miss", FALSE,
                          IF r.path = Root \/ r.path = IndexHtml
                          THEN OfflinePage(cs) ELSE "nothing"),
        caches |-> cs]

\* Strategy 2, network-first for API calls with cache fallback.
ApiNetworkFirst(r, net, cs) ==
  IF net = "ok"
  THEN [answer |-> Answer(r, "api", "network", net, "unread", TRUE,
                          "network"),
        caches |-> CachePut(cs, CACHE_NAME, Url(r), net)]
  ELSE IF net = "httpError"
  THEN [answer |-> Answer(r, "api", "network", net, "unread", FALSE,
                          "network"),
        caches |-> cs]
  ELSE [answer |-> Answer(r, "api", "network", net,
                          IF Hit(cs, Url(r)) THEN "hit" ELSE "miss", FALSE,
                          IF Hit(cs, Url(r)) THEN "cached" ELSE "json503"),
        caches |-> cs]

\* Mutant of NetworkFirst: no offline page behind the cache.
NetworkFirstNoOfflinePage(r, net, cs) ==
  IF net # "fail"
  THEN [answer |-> Answer(r, "other", "network", net, "unread", FALSE,
                          "network"),
        caches |-> cs]
  ELSE [answer |-> Answer(r, "other", "network", net,
                          IF Hit(cs, Url(r)) THEN "hit" ELSE "miss", FALSE,
                          IF Hit(cs, Url(r)) THEN "cached" ELSE "nothing"),
        caches |-> cs]

\* Strategy 3, network-first for all other requests.
NetworkFirst(r, net, cs) ==
  IF net # "fail"
  THEN [answer |-> Answer(r, "other", "network", net, "unread", FALSE,
                          "network"),
        caches |-> cs]
  ELSE [answer |-> Answer(r, "other", "network", net,
                          IF Hit(cs, Url(r)) THEN "hit" ELSE "miss", FALSE,
                          IF Hit(cs, Url(r)) THEN "cached"
                          ELSE OfflinePage(cs)),
        caches |-> cs]

\* The strategies in the order the fetch listener tests for them.
Dispatch(r, net, cs) ==
  IF IsStatic(r.path) THEN CacheFirst(r, net, cs)
  ELSE IF IsApi(r.path) THEN ApiNetworkFirst(r, net, cs)
  ELSE NetworkFirst(r, net, cs)

\* Mutant of Route: the method is not looked at.
RouteAnyMethod(r, net, cs) == Dispatch(r, net, cs)

\* The fetch listener: `if (event.request.method !== 'GET') return;`
\* comes first.
Route(r, net, cs) ==
  IF r.method # "GET"
  THEN [answer |-> [NoFetch EXCEPT !.req = r, !.class = "skipped"],
        caches |-> cs]
  ELSE Dispatch(r, net, cs)

\* Mutant of Stale: caches of the same product are kept.
StaleOtherProduct(cacheName) == cacheName \notin {CACHE_NAME, "smartcapi-v0"}

\* activate: `if (cacheName !== CACHE_NAME) return caches.delete(cacheName)`
Stale(cacheName) == cacheName # CACHE_NAME

\* install: caches.open(CACHE_NAME).then(cache => cache.addAll(STATIC_FILES)).
\* addAll stores all the files or, when one of them cannot be fetched with
\* a 2xx status, none: then the install fails and is tried again later.
Install(ok) ==
  /\ phase = "parsed"
  /\ IF ok
     THEN /\ caches' =
               [n \in DOMAIN caches \cup {CACHE_NAME} |->
                  IF n = CACHE_NAME
                  THEN {e \in Open(caches, CACHE_NAME)[CACHE_NAME] :
                          e[1] \notin {<<f, "">> : f \in STATIC_FILES}}
                       \cup {<<<<f, "">>, "ok">> : f \in STATIC_FILES}
                  ELSE caches[n]]
          /\ phase' = "installed"
     ELSE /\ caches' = Open(caches, CACHE_NAME)
          /\ UNCHANGED phase
  /\ UNCHANGED <<deleted, served>>
  /\ UNCHANGED <<syncVars, autoVars, clientVars, monitorVars, dbVars, histVars,
                 forageVars>>

\* activate: caches.keys(), then caches.delete for every stale name.
Activate ==
  /\ phase = "installed"
  /\ phase' = "active"
  /\ deleted' = {n \in DOMAIN caches : Stale(n)}
  /\ caches' = [n \in {m \in DOMAIN caches : ~Stale(m)} |-> caches[n]]
  /\ UNCHANGED served
  /\ UNCHANGED <<syncVars, autoVars, clientVars, monitorVars, dbVars, histVars,
                 forageVars>>

\* A fetch event reaches the active worker.
Fetch(r, net) ==
  /\ phase = "active"
  /\ LET out == Route(r, net, caches)
     IN  /\ served' = out.answer
         /\ caches' = out.caches
  /\ UNCHANGED <<phase, deleted>>
  /\ UNCHANGED <<syncVars, autoVars, clientVars, monitorVars, dbVars, histVars,
                 forageVars>>

RouterInit ==
  /\ phase = "parsed"
  /\ caches \in PriorCaches
  /\ deleted = {}
  /\ served = NoFetch

RouterNext ==
  \/ \E ok \in BOOLEAN : Install(ok)
  \/ Activate
  \/ \E r \in Requests, net \in NetOutcomes : Fetch(r, net)

InitRouter == SyncInit /\ AutoIdle /\ ClientIdle /\ RouterInit /\ Idle
SpecRouter == InitRouter /\ [][RouterNext]_vars




(* ------------------------------- claims ------------------------------- *)

\* The store reflects what invocation i did: i is the most recent
\* invocation and nothing else was alive since it started.
Alone(i) == last = i /\ solo

Succeeded(i) == pc[i] = "done" /\ why[i] = "applied"

\* C1: for every result of a successful sync response whose status is
\* neither 'created' nor 'updated', the corresponding local record ends as
\* 'conflict', in the service worker and in the foreground service alike.
C1_ConservativeMapping ==
  \A i \in Inv :
    (Alone(i) /\ Succeeded(i)) =>
      \A u \in UuidsOf(store) :
        resp[i][u] \notin {"none", "created", "updated"} =>
          StatusOf(store, u) = "conflict"

\* C2: when the batch POST fails, the invocation issues no update and puts
\* no record, and every record of its batch is still stored as it was
\* read, pending.
C2_FailedPostChangesNothing ==
  \A i \in Inv :
    why[i] = "postfail" =>
      /\ ops[i] = {}
      /\ wrote[i] = {}
      /\ Alone(i) =>
           \A r \in batch[i] : r \in store /\ r.sync_status = "pending"

C2_Witness ==
  \E i \in Inv :
    /\ pc[i] = "done" /\ why[i] = "postfail" /\ Alone(i)
    /\ sent[i] = 1
    /\ Cardinality(batch[i]) = MaxRecords

\* C3: a failed sync attempt (the POST fails) rejects the promise of
\* syncWithServer, in both implementations.
C3_FailureRejects ==
  \A i \in Inv : why[i] = "postfail" => outcome[i] = "rejected"

\* C4: when getPendingTranscripts resolves while no stored record is
\* pending, syncWithServer completes in that very step: resolved, no POST
\* issued, no update issued, the store unchanged.
C4_EmptyQueueNoOp ==
  [][\A i \in Inv :
       ( /\ pc[i] = "read"
         /\ pc'[i] # "read"
         /\ why'[i] # "readerr"
         /\ \A u \in UUIDs : StatusOf(store, u) # "pending" )
       => ( /\ pc'[i] = "done"
            /\ outcome'[i] = "resolved"
            /\ sent'[i] = 0
            /\ ops'[i] = {}
            /\ wrote'[i] = {}
            /\ store' = store )]_vars

C4_Witness ==
  \E i \in Inv :
    /\ pc[i] = "done" /\ why[i] = "empty" /\ outcome[i] = "resolved"
    /\ sent[i] = 0
    /\ store # {}
    /\ \A u \in UUIDs : StatusOf(store, u) # "pending"

\* C5: a record submitted in an attempt that failed or was only partially
\* applied, and submitted again in a later attempt that succeeds with
\* 'created' or 'updated' for it, is stored exactly once and is synced;
\* no step of a sync attempt changes the number of stored records.
C5_Resubmitted(i, u) ==
  /\ Alone(i) /\ Succeeded(i)
  /\ u \in failedUuids \cap UuidsOf(batch[i])
  /\ resp[i][u] \in {"created", "updated"}

C5_IdempotentResubmission ==
  /\ [](\A i \in Inv, u \in UUIDs :
          C5_Resubmitted(i, u) =>
            /\ Cardinality(Get(store, u)) = 1
            /\ \A r \in Get(store, u) : r.sync_status = "synced")
  /\ [][(Cardinality(store') # Cardinality(store))
          => \E u \in UUIDs : SaveTranscript(u)]_vars

C5_Witness ==
  \E i \in Inv, u \in UUIDs :
    /\ C5_Resubmitted(i, u)
    /\ sent[i] = 1
    /\ StatusOf(store, u) = "synced"
    /\ Cardinality(store) = MaxRecords

\* C6: after a successful sync whose response holds one result per
\* submitted record, each 'created', 'updated' or 'conflict', every record
\* reported created or updated is synced, every record reported conflict
\* is conflict, and no submitted record is pending.
C6_OneResultPerRecord(i) ==
  /\ batch[i] # {}
  /\ \A u \in UUIDs : resp[i][u] # "none" <=> u \in UuidsOf(batch[i])
  /\ \A u \in UuidsOf(batch[i]) : resp[i][u] \in ProtocolStatus

C6_SuccessfulSync ==
  \A i \in Inv :
    (Alone(i) /\ Succeeded(i) /\ C6_OneResultPerRecord(i)) =>
      \A u \in UuidsOf(batch[i]) :
        /\ resp[i][u] \in {"created", "updated"}
             => StatusOf(store, u) = "synced"
        /\ resp[i][u] = "conflict" => StatusOf(store, u) = "conflict"
        /\ StatusOf(store, u) # "pending"

C6_Witness ==
  \E i \in Inv :
    /\ Alone(i) /\ Succeeded(i) /\ C6_OneResultPerRecord(i)
    /\ Cardinality(batch[i]) = MaxRecords
    /\ \E u \in UUIDs : resp[i][u] = "updated" /\ StatusOf(store, u) = "synced"
    /\ \E u \in UUIDs : resp[i][u] = "conflict" /\ StatusOf(store, u) = "conflict"

\* C7: with a callback that always fails, the retries scheduled since the
\* last explicit trigger never exceed maxRetries.
C7_RetryCap == cb = "failing" => retries <= maxRetries

\* C8: once a record is synced, no step changes it.
C8_SyncedIsTerminal ==
  [][\A r \in store : r.sync_status = "synced" => r \in store']_vars

\* C9: getPendingTranscripts returns exactly the stored records whose
\* sync_status is pending, and every batch that was posted holds only
\* records that were pending when read.
C9_VisibleIffPending ==
  /\ [][\A i \in Inv :
          (pc[i] = "read" /\ pc'[i] # "read" /\ why'[i] # "readerr")
          => \A r \in store : r \in batch'[i] <=> r.sync_status = "pending"]_vars
  /\ [](\A i \in Inv :
          /\ \A r \in batch[i] : r.sync_status = "pending"
          /\ sent[i] > 0 => batch[i] # {})

C9_Witness ==
  \E i \in Inv :
    /\ pc[i] = "fetch" /\ sent[i] = 1
    /\ batch[i] # {}
    /\ \E r \in store : r.sync_status # "pending" /\ r \notin batch[i]

\* C10: no step removes a uuid from the local store.
C10_NeverDeletes == [][UuidsOf(store) \subseteq UuidsOf(store')]_vars

C10_Witness ==
  \E i \in Inv :
    /\ pc[i] = "done" /\ why[i] = "applyfail"
    /\ wrote[i] # {}
    /\ Cardinality(store) = MaxRecords
    /\ \E r \in store : r.sync_status = "synced"


\* C11: when the local write of a record fails (the open or the put), the
\* producing workflow is told, posts nothing, asks for no sync for it, and
\* the record is in no later result of getPendingTranscripts.
C11_DurabilityFailureAborts ==
  wf.fault # "none" =>
    /\ wf.told
    /\ ~wf.posted
    /\ ~wf.asked
    /\ wf.uuid \notin UuidsOf(GetPendingTranscripts(store))

\* C12: on a platform without the background-sync facility, every request
\* for a background sync has invoked syncWithServer when it returns.
C12_SynchronousFallback ==
  (wf.asked /\ ~HasSyncManager(platform)) => wf.invoked

\* C13: a sync event whose tag is one the client registers
\* ('transcript-sync', 'voice-sync') makes the handler invoke
\* syncWithServer.
C13_SyncEventInvokes ==
  (wf.who = "sync" /\ wf.tag \in SyncTags) => wf.invoked

\* C14: once the activate handler has completed, the only cache that
\* exists is the one named CACHE_NAME, whatever caches existed before.
C14_OnlyCurrentCache == phase = "active" => DOMAIN caches = {CACHE_NAME}

C14_Witness ==
  /\ phase = "active"
  /\ deleted = CacheNames \ {CACHE_NAME}
  /\ DOMAIN caches = {CACHE_NAME}

\* C15: for a request whose method is not GET the fetch handler returns
\* without respondWith, reads no cache, writes no cache and sends nothing.
C15_NonGetNotIntercepted ==
  [][served'.req.method = "POST" =>
       /\ ~served'.responded
       /\ served'.hit = "unread"
       /\ ~served'.cacheWrote
       /\ served'.net = "none"
       /\ caches' = caches]_vars

C15_Witness ==
  /\ served.req.method = "POST"
  /\ IsStatic(served.req.path)
  /\ Hit(caches, Url(served.req))
  /\ served.class = "skipped"

\* C16: a GET whose pathname starts with '/api/' is answered
\* network-first: the network is tried before the cache is consulted, and
\* a cached copy is served only after the network attempt has failed.
C16_ApiNetworkFirst ==
  (served.req.method = "GET" /\ IsApi(served.req.path)) =>
    /\ served.first = "network"
    /\ served.body = "cached" => served.net = "fail"

\* C17: an API GET whose network attempt fails is answered with the
\* cached response when there is one and else with the synthesized 503
\* JSON body; it is never left unanswered or given the offline page.
C17_ApiOfflineAnswer ==
  (served.req.method = "GET" /\ IsApi(served.req.path)
     /\ served.net = "fail") =>
    /\ served.body \in {"cached", "json503"}
    /\ served.body = "cached" <=> served.hit = "hit"

\* C18: a GET matching the static manifest is answered cache-first: a
\* cached response is served without a network request; else the network
\* response is stored in the current cache and served; when both fail the
\* offline page is served, and only for navigational requests.
C18_StaticCacheFirst ==
  (served.req.method = "GET" /\ IsStatic(served.req.path)) =>
    /\ served.first = "cache"
    /\ served.hit = "hit" => (served.body = "cached" /\ served.net = "none")
    /\ (served.hit = "miss" /\ served.net \in {"ok", "httpError"}) =>
         /\ served.body = "network"
         /\ <<Url(served.req), served.net>> \in caches[CACHE_NAME]
    /\ (served.hit = "miss" /\ served.net = "fail") =>
         /\ served.body \in {"offlinePage", "nothing"}
         /\ served.body = "offlinePage" <=> served.req.mode = "navigate"

\* C19: a GET that is neither static nor an API call is answered from
\* the network; when the network fails, with the cached response if one
\* exists and else with the offline fallback page.
C19_OtherNetworkFirst ==
  (served.req.method = "GET" /\ ~IsStatic(served.req.path)
     /\ ~IsApi(served.req.path)) =>
    /\ served.first = "network"
    /\ served.net # "none"
    /\ served.net # "fail" => served.body = "network"
    /\ served.net = "fail" =>
         served.body = IF served.hit = "hit" THEN "cached" ELSE "offlinePage"

C19_Witness ==
  /\ served.req.method = "GET"
  /\ served.req.path = AppJs
  /\ served.net = "fail"
  /\ served.hit = "miss"
  /\ served.body = "offlinePage"

\* C20: updateTranscriptStatus on a uuid with no stored record settles by
\* rejecting into its caller (the Promise.all of syncWithServer, which
\* goes to its catch) and leaves the store as it was.
C20_NotFoundRejects ==
  [][\A i \in Inv, op \in UUIDs \X {"synced", "conflict"} :
       (op \in ops[i] /\ Get(store, op[1]) = {} /\ op \notin ops'[i]) =>
         /\ store' = store
         /\ pc[i] = "apply" =>
              /\ pc'[i] = "done"
              /\ why'[i] = "applyfail"
              /\ outcome'[i] = CatchOutcome(kind[i])]_vars

C20_Witness ==
  \E i \in Inv, u \in UUIDs :
    /\ pc[i] = "done"
    /\ why[i] = "applyfail"
    /\ resp[i][u] = "created"
    /\ u \notin UuidsOf(store)
    /\ ops[i] = {}
    /\ store # {}

(* ------------------- record timestamps (localDb.js) ------------------- *)

\* The clock values the model lets Date.now() take.
MaxClock == 2

\* The transcript texts saved.
Texts == {"a", "b"}

Impls == {"sw", "localDb"}

\* The record literal of saveTranscript: uuid, text, updated_at and
\* sync_status "pending" (speaker_id is carried like text).
TranscriptRecord(u, txt, t) ==
  [uuid |-> u, text |-> txt, updated_at |-> t, sync_status |-> "pending"]

\* Time passes on the client clock.
Tick ==
  /\ now < MaxClock
  /\ now' = now + 1
  /\ UNCHANGED <<isOnline, lastOnlineTime, lastOfflineTime, downSince>>
  /\ UNCHANGED <<syncVars, autoVars, clientVars, routerVars, dbVars, histVars,
                 forageVars>>

\* saveTranscript(speaker_id, text) with its whole record: updated_at is
\* Date.now() at the time of the call.
SaveTranscriptAt(u, txt) ==
  /\ u \notin UuidsOf(store)
  /\ store' = Put(store, TranscriptRecord(u, txt, now))
  /\ UNCHANGED <<pc, kind, batch, sent, resp, ops, wrote, why, outcome,
                 last, solo, failedUuids>>
  /\ UNCHANGED <<autoVars, clientVars, routerVars, monitorVars, dbVars,
                 histVars, forageVars>>

\* Who calls indexedDB.open(DB_NAME, 1): the service worker (part_002),
\* localDb.js, the interview page and the voice registration page.
Openers == {"sw", "localDb", "page", "voice"}

\* onupgradeneeded of each opener: the object stores it creates.  The
\* service worker sets no upgrade handler.
Creates(opener) ==
  CASE opener = "sw" -> {}
    [] opener \in {"localDb", "page"} -> {STORE_NAME}
    [] opener = "voice" -> {VOICE_STORE_NAME}

\* db.objectStoreNames once open(DB_NAME, 1) has succeeded: a database that
\* did not exist is created at version 1 by the opener's upgrade handler;
\* an existing one is at version 1 already and is not upgraded.
StoresAfterOpen(opener) ==
  IF dbVersion = 0 THEN Creates(opener) ELSE objectStores

\* Whether the call opens the database: localDb.js's initDB returns its
\* kept connection when it has one.
Reopens(impl) == impl = "sw" \/ ~db

\* What stands in the way of the call: the open request fails, or the
\* opened database has no object store STORE_NAME.
Fault(impl, openOk) ==
  IF Reopens(impl) /\ ~openOk THEN "open"
  ELSE IF STORE_NAME \notin StoresAfterOpen(impl) THEN "noStore"
  ELSE "none"

\* The effect of the call's open request on the database and on
\* localDb.js's kept connection.
Opened(impl, openOk) ==
  /\ Reopens(impl) \/ openOk
  /\ IF Reopens(impl) /\ openOk
     THEN /\ dbVersion' = 1
          /\ objectStores' = StoresAfterOpen(impl)
     ELSE UNCHANGED <<dbVersion, objectStores>>
  /\ db' = (db \/ (impl = "localDb" /\ openOk))

\* A direct call updateTranscriptStatus(uuid, status) of either
\* implementation: the record is read, its sync_status assigned and the
\* record put back; a missing record rejects.  Without the object store
\* db.transaction throws: inside the async function of localDb.js that
\* rejects its promise, inside the service worker's onsuccess handler the
\* promise is left unsettled.
UpdateTranscriptStatus(impl, u, s, openOk) ==
  LET fault == Fault(impl, openOk)
      found == fault = "none" /\ Found(store, u)
  IN  /\ Opened(impl, openOk)
      /\ store' = IF found THEN SetStatus(store, u, s) ELSE store
      /\ call' = [fn |-> "updateTranscriptStatus", impl |-> impl,
                  fault |-> fault,
                  settled |-> IF fault = "noStore" /\ impl = "sw"
                              THEN "never"
                              ELSE IF found THEN "resolved" ELSE "rejected",
                  value |-> {}]
      /\ UNCHANGED <<pc, kind, batch, sent, resp, ops, wrote, why, outcome,
                     last, solo, failedUuids>>
      /\ UNCHANGED <<autoVars, clientVars, routerVars, monitorVars, histVars,
                     forageVars>>

StampNext ==
  \/ Tick
  \/ \E u \in UUIDs, txt \in Texts : SaveTranscriptAt(u, txt)
  \/ \E impl \in Impls, u \in UUIDs, s \in {"synced", "conflict"} :
       UpdateTranscriptStatus(impl, u, s, TRUE)

SpecStamp == Init /\ [][StampNext]_vars

\* C21: updateTranscriptStatus on an existing record sets sync_status and
\* the record's last-modified timestamp (to the time of the call) in one
\* step, and leaves the record's other fields and all other records as
\* they were.
C21_StatusAndTimestamp ==
  [][\A r \in store :
       (call'.fn = "updateTranscriptStatus" /\ call'.settled = "resolved"
        /\ r \notin store')
       => \E s \in {"synced", "conflict"} :
            store' = (store \ {r})
                     \cup {[r EXCEPT !.sync_status = s, !.updated_at = now]}
    ]_vars

\* The part of C21 the code does fulfil: only sync_status of the one record
\* changes.
C21_OnlyStatusChanges ==
  [][\A r \in store :
       (call'.fn = "updateTranscriptStatus" /\ call'.settled = "resolved"
        /\ r \notin store')
       => \E s \in {"synced", "conflict"} :
            store' = (store \ {r}) \cup {[r EXCEPT !.sync_status = s]}
    ]_vars

(* ---------------- opening the database (storage faults) ---------------- *)

\* initDB() of the interview page or of the voice registration page: it
\* only opens the database.
InitDB(opener, openOk) ==
  /\ opener \in {"page", "voice"}
  /\ IF openOk
     THEN dbVersion' = 1 /\ objectStores' = StoresAfterOpen(opener)
     ELSE UNCHANGED <<dbVersion, objectStores>>
  /\ call' = [fn |-> "initDB", impl |-> opener,
              fault |-> IF openOk THEN "none" ELSE "open",
              settled |-> IF openOk THEN "resolved" ELSE "rejected",
              value |-> {}]
  /\ UNCHANGED <<store, db>>
  /\ UNCHANGED <<pc, kind, batch, sent, resp, ops, wrote, why, outcome,
                 last, solo, failedUuids>>
  /\ UNCHANGED <<autoVars, clientVars, routerVars, monitorVars, histVars,
                 forageVars>>

\* A direct call getPendingTranscripts().  A failed open rejects in both
\* implementations.  Without the object store the service worker resolves
\* with the empty list; in localDb.js db.transaction throws and the async
\* function rejects.
CallGetPendingTranscripts(impl, openOk) ==
  LET fault == Fault(impl, openOk)
  IN  /\ Opened(impl, openOk)
      /\ call' = [fn |-> "getPendingTranscripts", impl |-> impl,
                  fault |-> fault,
                  settled |-> IF fault = "none"
                                 \/ (fault = "noStore" /\ impl = "sw")
                              THEN "resolved" ELSE "rejected",
                  value |-> IF fault = "none"
                            THEN GetPendingTranscripts(store) ELSE {}]
      /\ UNCHANGED store
      /\ UNCHANGED <<pc, kind, batch, sent, resp, ops, wrote, why, outcome,
                     last, solo, failedUuids>>
      /\ UNCHANGED <<autoVars, clientVars, routerVars, monitorVars, histVars,
                     forageVars>>

\* A direct call saveTranscript(speaker_id, text) of localDb.js: initDB's
\* rejection or the throw of db.transaction rejects the async function;
\* otherwise the record is put.
CallSaveTranscript(u, openOk) ==
  LET fault == Fault("localDb", openOk)
  IN  /\ u \notin UuidsOf(store)
      /\ Opened("localDb", openOk)
      /\ store' = IF fault = "none" THEN Put(store, Record(u, "pending"))
                  ELSE store
      /\ call' = [fn |-> "saveTranscript", impl |-> "localDb",
                  fault |-> fault,
                  settled |-> IF fault = "none" THEN "resolved"
                              ELSE "rejected",
                  value |-> {}]
      /\ UNCHANGED <<pc, kind, batch, sent, resp, ops, wrote, why, outcome,
                     last, solo, failedUuids>>
      /\ UNCHANGED <<autoVars, clientVars, routerVars, monitorVars, histVars,
                     forageVars>>

\* A save by the interview page (saveToIndexedDB into 'transcripts') or by
\* the voice-registration page (saveVoiceToIndexedDB into
\* 'voice_registrations'): initDB opens the database, then db.transaction
\* on the page's own store throws when that store does not exist, which
\* rejects the promise; otherwise the record is put.
PageSave(opener, u, openOk) ==
  LET wanted == IF opener = "voice" THEN VOICE_STORE_NAME ELSE STORE_NAME
      fault == IF ~openOk THEN "open"
               ELSE IF wanted \notin StoresAfterOpen(opener) THEN "noStore"
               ELSE "none"
  IN  /\ opener \in {"page", "voice"}
      /\ u \notin UuidsOf(store) \cup voiceStore
      /\ IF openOk
         THEN dbVersion' = 1 /\ objectStores' = StoresAfterOpen(opener)
         ELSE UNCHANGED <<dbVersion, objectStores>>
      /\ store' = IF fault = "none" /\ opener = "page"
                  THEN Put(store, Record(u, "pending")) ELSE store
      /\ voiceStore' = IF fault = "none" /\ opener = "voice"
                       THEN voiceStore \cup {u} ELSE voiceStore
      /\ call' = [fn |-> "save", impl |-> opener, fault |-> fault,
                  settled |-> IF fault = "none" THEN "resolved"
                              ELSE "rejected",
                  value |-> {}]
      /\ UNCHANGED <<db, platform, registered, wf>>
      /\ UNCHANGED <<pc, kind, batch, sent, resp, ops, wrote, why, outcome,
                     last, solo, failedUuids>>
      /\ UNCHANGED <<autoVars, routerVars, monitorVars, histVars, forageVars>>

\* Nothing has opened the database yet.
DbInit ==
  /\ dbVersion = 0
  /\ objectStores = {}
  /\ db = FALSE
  /\ call = NoCall

DbNext ==
  \/ \E opener \in Openers, openOk \in BOOLEAN : InitDB(opener, openOk)
  \/ \E impl \in Impls, openOk \in BOOLEAN :
       CallGetPendingTranscripts(impl, openOk)
  \/ \E impl \in Impls, u \in UUIDs, s \in {"synced", "conflict"},
        openOk \in BOOLEAN : UpdateTranscriptStatus(impl, u, s, openOk)
  \/ \E u \in UUIDs, openOk \in BOOLEAN : CallSaveTranscript(u, openOk)
  \/ \E opener \in Openers, u \in UUIDs, openOk \in BOOLEAN :
       PageSave(opener, u, openOk)

InitDb ==
  SyncInit /\ AutoIdle /\ ClientIdle /\ RouterIdle /\ MonitorIdle /\ DbInit
  /\ HistIdle /\ ForageIdle
SpecDb == InitDb /\ [][DbNext]_vars

\* C22: when the database cannot be opened or has no transcript object
\* store, getPendingTranscripts, updateTranscriptStatus and saveTranscript
\* deliver an error to their caller, never a normal result.
C22_StorageFaultsSurface ==
  (call.fn \in {"getPendingTranscripts", "updateTranscriptStatus",
                "saveTranscript"}
   /\ call.fault # "none")
  => call.settled = "rejected"

\* The same for localDb.js alone, and for failed opens alone: these hold.
C22_LocalDbSurfaces ==
  (call.impl = "localDb" /\ call.fault # "none") => call.settled = "rejected"
C22_OpenFailureSurfaces ==
  call.fault = "open" => call.settled = "rejected"

\* Invocation i has received a 2xx response with a results list.
Responded(i) == pc[i] = "apply" \/ why[i] \in {"applied", "applyfail"}

\* The records invocation i submitted for which its response has no result.
Unresolved(i) == {r \in batch[i] : resp[i][r.uuid] = "none"}

\* C23: after a 2xx response that omits the result of a submitted record
\* (whatever results for other ids it carries), the record is still stored
\* as pending, stays so until the next attempt reads, and that read returns
\* every pending record.
C23_UnresolvedStayPending ==
  [][\A i \in Inv :
       /\ (Alone(i) /\ Responded(i))
          => /\ Unresolved(i) \subseteq GetPendingTranscripts(store)
             /\ Unresolved(i) \subseteq GetPendingTranscripts(store')
       /\ (Alone(i) /\ pc[i] = "read")
          => /\ GetPendingTranscripts(store) \subseteq
                  GetPendingTranscripts(store')
             /\ (pc'[i] \in {"fetch", "done"} /\ why'[i] # "readerr")
                => GetPendingTranscripts(store) \subseteq batch'[i]
    ]_vars

\* A finished attempt whose response omitted a submitted record and held a
\* result for a uuid that was not submitted.
C23_Witness ==
  \E i \in Inv :
    /\ Alone(i) /\ Succeeded(i)
    /\ Unresolved(i) # {}
    /\ \E u \in UUIDs \ UuidsOf(batch[i]) : resp[i][u] # "none"
    /\ Unresolved(i) \subseteq GetPendingTranscripts(store)

(* ------------- AutoSyncManager driving syncWithServer ------------- *)

\* The attempts of a sync run that ended without completing: the read, the
\* POST, the response body or an update failed.
FailedWhy == {"readerr", "postfail", "malformed", "applyfail"}

\* attemptSync() with the foreground syncWithServer as syncCallback, called
\* by the 'online' listener or by a caller: online, so `await
\* this.syncCallback()` invokes syncWithServer.  One attempt at a time.
AttemptSyncWithServer ==
  /\ cb = "syncWithServer"
  /\ online
  /\ inflight = 0
  /\ \A j \in Inv : Quiet(j)
  /\ Invoke(1, "fg")
  /\ inflight' = inflight + 1
  /\ retries' = 0
  /\ UNCHANGED store
  /\ UNCHANGED <<online, cb, retryCount, retryTimer, timers>>
  /\ UNCHANGED <<clientVars, routerVars, monitorVars, dbVars, histVars,
                 forageVars>>

\* The retry timeout fires and its callback runs attemptSync().
RetryTimerSync ==
  /\ cb = "syncWithServer"
  /\ online
  /\ timers > 0
  /\ inflight = 0
  /\ \A j \in Inv : Quiet(j)
  /\ timers' = timers - 1
  /\ retryTimer' = "stale"
  /\ Invoke(1, "fg")
  /\ inflight' = inflight + 1
  /\ UNCHANGED store
  /\ UNCHANGED <<online, cb, retryCount, retries>>
  /\ UNCHANGED <<clientVars, routerVars, monitorVars, dbVars, histVars,
                 forageVars>>

\* `await this.syncCallback()` settles as syncWithServer's promise did: a
\* resolution resets the count and clears the timer, a rejection enters the
\* catch block and scheduleRetry().
SyncCallbackSettles ==
  /\ cb = "syncWithServer"
  /\ inflight > 0
  /\ pc[1] = "done"
  /\ retries <= maxRetries
  /\ inflight' = inflight - 1
  /\ IF outcome[1] = "rejected"
     THEN ScheduleRetry
     ELSE /\ retryCount' = 0
          /\ timers' = TimersAfterClear
          /\ retryTimer' = "null"
          /\ UNCHANGED retries
  /\ UNCHANGED <<online, cb>>
  /\ UNCHANGED <<syncVars, clientVars, routerVars, monitorVars, dbVars,
                 histVars, forageVars>>

\* new AutoSyncManager(syncWithServer, options), online.
AutoSyncInit ==
  /\ online = TRUE
  /\ cb = "syncWithServer"
  /\ retryCount = 0
  /\ retryTimer = "null"
  /\ timers = 0
  /\ inflight = 0
  /\ retries = 0

AutoSyncNext ==
  \/ AttemptSyncWithServer
  \/ RetryTimerSync
  \/ SyncCallbackSettles
  \/ \E i \in Inv : ReadPending(i)
  \/ \E i \in Inv : ReadFails(i)
  \/ \E i \in Inv : PostFails(i)
  \/ \E i \in Inv : PostMalformed(i)
  \/ \E i \in Inv, f \in Responses : PostOk(i, f)
  \/ \E i \in Inv, op \in UUIDs \X {"synced", "conflict"} : ApplyUpdate(i, op)
  \/ \E i \in Inv, op \in UUIDs \X {"synced", "conflict"} : ApplyFails(i, op)
  \/ \E u \in UUIDs : SaveTranscript(u)

InitAutoSync == SyncInit /\ AutoSyncInit /\ ClientIdle /\ RouterIdle /\ Idle
SpecAutoSync == InitAutoSync /\ [][AutoSyncNext]_vars

\* C24: a failure of the sync callback stays inside attemptSync and becomes
\* a scheduled retry while the cap is not reached; so with the foreground
\* syncWithServer as callback, a failed attempt (the server unreachable
\* among them) arms the retry timer.
C24_FailureSchedulesRetry ==
  [][(/\ cb = "syncWithServer"
      /\ inflight' < inflight
      /\ why[1] \in FailedWhy
      /\ retryCount < maxRetries)
     => (retryTimer' = "live" /\ retryCount' = retryCount + 1)]_vars

\* What attemptSync does fulfil: a rejected callback promise below the cap
\* arms the retry timer.
C24_RejectionSchedulesRetry ==
  [][(/\ cb = "syncWithServer"
      /\ inflight' < inflight
      /\ outcome[1] = "rejected"
      /\ retryCount < maxRetries)
     => (retryTimer' = "live" /\ retryCount' = retryCount + 1)]_vars

(* ------------------- networkMonitor.js: connectivity ------------------- *)

\* getDowntimeDuration(): 0 when online or when lastOfflineTime is null,
\* else Date.now() - lastOfflineTime.getTime().
GetDowntimeDuration ==
  IF isOnline \/ lastOfflineTime = {} THEN 0
  ELSE now - (CHOOSE t \in lastOfflineTime : TRUE)

\* handleOnline: the window 'online' event.  The flag and the time are set,
\* and 'transcript-sync' is registered where the registration of the service
\* worker has a sync manager.
HandleOnline ==
  /\ isOnline' = TRUE
  /\ lastOnlineTime' = {now}
  /\ registered' = IF HasSyncManager(platform)
                   THEN registered \cup {"transcript-sync"}
                   ELSE registered
  /\ UNCHANGED <<now, lastOfflineTime, downSince>>
  /\ UNCHANGED <<platform, voiceStore, wf>>
  /\ UNCHANGED <<syncVars, autoVars, routerVars, dbVars, histVars, forageVars>>

\* handleOffline: the window 'offline' event.
HandleOffline ==
  /\ isOnline' = FALSE
  /\ lastOfflineTime' = {now}
  /\ downSince' = {now}
  /\ UNCHANGED <<now, lastOnlineTime>>
  /\ UNCHANGED <<syncVars, autoVars, clientVars, routerVars, dbVars, histVars,
                 forageVars>>

\* The module is loaded: isOnline = ref(navigator.onLine), both times null.
MonitorInit ==
  /\ now = 0
  /\ isOnline \in BOOLEAN
  /\ lastOnlineTime = {}
  /\ lastOfflineTime = {}
  /\ downSince = {}

MonitorNext ==
  \/ Tick
  \/ HandleOnline
  \/ HandleOffline

InitMonitor ==
  SyncInit /\ AutoIdle /\ ClientInit /\ RouterIdle /\ MonitorInit /\ DbIdle
  /\ HistIdle /\ ForageIdle
SpecMonitor == InitMonitor /\ [][MonitorNext]_vars

\* C25: getDowntimeDuration is 0 whenever the monitor is online; whenever it
\* is offline there is a most recent offline transition and the value is
\* the time elapsed since it, whatever the events and the connectivity at
\* load.
C25_DowntimeDuration ==
  /\ isOnline => GetDowntimeDuration = 0
  /\ ~isOnline =>
       \E t \in downSince : GetDowntimeDuration = now - t

\* What the code does fulfil: the value is 0 online, and offline after an
\* observed 'offline' event it is the time since the latest one.
C25_AfterObservedOffline ==
  /\ isOnline => GetDowntimeDuration = 0
  /\ (~isOnline /\ downSince # {}) =>
       \E t \in downSince : GetDowntimeDuration = now - t

(* ------------------- overlapping reads of the queue ------------------- *)

\* The response of a server that creates every record it is sent.
AllCreated(i) ==
  [u \in UUIDs |-> IF u \in UuidsOf(batch[i]) THEN "created" ELSE "none"]

\* Invocations of the service worker's syncWithServer whose reads and POSTs
\* interleave; the server is unreachable or creates what it is sent.
RaceNext ==
  \/ \E i \in Inv : Start(i, "sw")
  \/ \E i \in Inv : ReadPending(i)
  \/ \E i \in Inv : PostFails(i)
  \/ \E i \in Inv : PostOk(i, AllCreated(i))
  \/ \E i \in Inv, op \in UUIDs \X {"synced", "conflict"} : ApplyUpdate(i, op)
  \/ \E u \in UUIDs : SaveTranscript(u)

SpecRace == Init /\ [][RaceNext]_vars

\* Invocation j has posted its batch and has not finished.
InFlight(j) == pc[j] \in {"fetch", "apply"}

\* C26: nothing keeps two overlapping invocations apart: the read of one
\* returns, and its POST carries, every record that is still pending, also
\* those another invocation has already sent and not yet settled; so two
\* invocations can each send the same record in a POST of their own.
C26_ReadIgnoresInFlight ==
  [][\A i \in Inv : \A j \in Inv \ {i} :
       (pc[i] = "read" /\ pc'[i] # "read" /\ InFlight(j))
       => /\ (batch[j] \cap GetPendingTranscripts(store)) \subseteq batch'[i]
          /\ (batch[j] \cap GetPendingTranscripts(store)) # {}
             => (pc'[i] = "fetch" /\ sent'[i] = 1)
    ]_vars

\* Both invocations have read the same pending record and each has sent it
\* in its own POST.
C26_Witness ==
  \E i \in Inv : \E j \in Inv \ {i} :
    /\ pc[i] = "fetch" /\ pc[j] = "fetch"
    /\ sent[i] = 1 /\ sent[j] = 1
    /\ \E r \in batch[i] \cap batch[j] : r.sync_status = "pending"

\* C27: a record in 'conflict' is not retried: no read of the pending set
\* taken while it is in 'conflict' puts it in a batch, and no step moves it
\* out of 'conflict'.
C27_ConflictIsTerminal ==
  [][\A r \in store :
       r.sync_status = "conflict"
       => /\ r \in store'
          /\ \A i \in Inv :
               (pc[i] = "read" /\ pc'[i] # "read") => r \notin batch'[i]
    ]_vars

\* The part of C27 the code does fulfil: a read never returns a record that
\* is in 'conflict'.
C27_ConflictNotRead ==
  [][\A r \in store :
       r.sync_status = "conflict"
       => \A i \in Inv :
            (pc[i] = "read" /\ pc'[i] # "read") => r \notin batch'[i]
    ]_vars

(* --------------------- progress of pending records --------------------- *)

\* The 2xx responses with exactly one result, of a protocol status, per
\* submitted uuid.
HonestResponses(i) ==
  {f \in Responses :
     \A u \in UUIDs : IF u \in UuidsOf(batch[i]) THEN f[u] \in ProtocolStatus
                      ELSE f[u] = "none"}

\* The server answers the POST of invocation i with such a response.
PostOkHonest(i) == \E f \in HonestResponses(i) : PostOk(i, f)

\* sync_status of a voice registration: saveVoiceToIndexedDB stores it as
\* 'pending' and no code writes the record again.
VoiceStatusOf(u) == IF u \in voiceStore THEN "pending" ELSE "absent"

\* Records are saved by both pages, the platform fires sync events of both
\* tags, and the service worker's syncWithServer runs against a server that
\* is unreachable or answers every submitted record.
LiveNext ==
  \/ \E tag \in SyncTags : SyncEvent(tag)
  \/ \E i \in Inv : ReadPending(i)
  \/ \E i \in Inv : PostFails(i)
  \/ \E i \in Inv : PostOkHonest(i)
  \/ \E i \in Inv, op \in UUIDs \X {"synced", "conflict"} : ApplyUpdate(i, op)
  \/ \E u \in UUIDs : SaveTranscript(u)
  \/ \E u \in UUIDs, onLine \in BOOLEAN, postOk \in BOOLEAN :
       FinishRegistration(u, "none", onLine, postOk)

\* Sync events of both tags keep firing, an invocation that can take its
\* next step takes it, and the server does not fail for ever.
LiveFairness ==
  /\ \A tag \in SyncTags : WF_vars(SyncEvent(tag))
  /\ WF_vars(\E i \in Inv : ReadPending(i))
  /\ SF_vars(\E i \in Inv : PostOkHonest(i))
  /\ WF_vars(\E i \in Inv, op \in UUIDs \X {"synced", "conflict"} :
               ApplyUpdate(i, op))

SpecLive == Init /\ [][LiveNext]_vars /\ LiveFairness

\* C28: with sync attempts that keep being triggered and a server that
\* eventually answers, every record persisted as 'pending', a transcript
\* or a voice registration, eventually is 'synced' or 'conflict'.
C28_PendingEventuallySettles ==
  \A u \in UUIDs :
    /\ (StatusOf(store, u) = "pending")
         ~> (StatusOf(store, u) \in {"synced", "conflict"})
    /\ (VoiceStatusOf(u) = "pending")
         ~> (VoiceStatusOf(u) \in {"synced", "conflict"})

\* The part of C28 the code does fulfil: pending transcripts settle.
C28_TranscriptsSettle ==
  \A u \in UUIDs :
    (StatusOf(store, u) = "pending")
      ~> (StatusOf(store, u) \in {"synced", "conflict"})

(* ----------------- 2xx responses of an unexpected shape ----------------- *)

\* The key updateTranscriptStatus is given for a result entry that has no
\* uuid field (undefined): no record is stored under it.
NoUuid == 0

\* A 2xx response whose results list holds, besides the entries f, an entry
\* of status s without a uuid.  data.results.map issues every update, the
\* one for the entry without uuid too, and Promise.all is awaited.
PostOkAnonymous(i, f, s) ==
  /\ pc[i] = "fetch"
  /\ resp' = [resp EXCEPT ![i] = f]
  /\ ops' = [ops EXCEPT ![i] =
               Updates(kind[i], f) \cup {<<NoUuid, SwNewStatus(s)>>}]
  /\ pc' = [pc EXCEPT ![i] = "apply"]
  /\ why' = [why EXCEPT ![i] = "anon"]
  /\ UNCHANGED <<store, kind, batch, sent, wrote, outcome, last, solo,
                 failedUuids>>
  /\ UNCHANGED <<autoVars, clientVars, routerVars, monitorVars, dbVars,
                 histVars, forageVars>>

\* updateTranscriptStatus(undefined, status): store.get(undefined) throws a
\* DataError.  In localDb.js the throw is inside the async function, whose
\* promise rejects, so Promise.all rejects and the catch block runs.  In
\* the service worker the throw is inside the onsuccess handler of the open
\* request: the promise is never settled, and this step does not exist.
AnonymousRejects(i, st) ==
  /\ kind[i] = "fg"
  /\ <<NoUuid, st>> \in ops[i]
  /\ ops' = [ops EXCEPT ![i] = @ \ {<<NoUuid, st>>}]
  /\ IF pc[i] = "apply"
     THEN /\ pc' = [pc EXCEPT ![i] = "done"]
          /\ outcome' = [outcome EXCEPT ![i] = CatchOutcome(kind[i])]
          /\ failedUuids' = failedUuids \cup UuidsOf(batch[i])
     ELSE UNCHANGED <<pc, outcome, failedUuids>>
  /\ UNCHANGED <<store, kind, batch, sent, resp, wrote, why, last, solo>>
  /\ UNCHANGED <<autoVars, clientVars, routerVars, monitorVars, dbVars,
                 histVars, forageVars>>

ShapeNext ==
  \/ \E k \in Kinds : SeqStart(k)
  \/ \E i \in Inv : ReadPending(i)
  \/ \E i \in Inv : PostFails(i)
  \/ \E i \in Inv : PostMalformed(i)
  \/ \E i \in Inv, f \in OverlapResponses : PostOk(i, f)
  \/ \E i \in Inv, f \in OverlapResponses, s \in OverlapStatus :
       PostOkAnonymous(i, f, s)
  \/ \E i \in Inv, st \in {"synced", "conflict"} : AnonymousRejects(i, st)
  \/ \E i \in Inv, op \in UUIDs \X {"synced", "conflict"} : ApplyUpdate(i, op)
  \/ \E i \in Inv, op \in UUIDs \X {"synced", "conflict"} : ApplyFails(i, op)
  \/ \E u \in UUIDs : SaveTranscript(u)

SpecShape == Init /\ [][ShapeNext]_vars

\* The response of invocation i had no results list, or an entry without
\* uuid.
BadShape(i) == why[i] \in {"malformed", "anon"}

\* Invocation i waits for Promise.all, and every update still awaited is
\* one that never settles.
Hung(i) ==
  /\ pc[i] = "apply"
  /\ kind[i] = "sw"
  /\ ops[i] # {}
  /\ \A op \in ops[i] : op[1] = NoUuid

\* C29: a 2xx response without a results list, or with a result entry
\* without uuid, is a failed attempt: no stored record changes, and the
\* invocation ends as it ends on a transport failure (it is not left
\* waiting for ever).
C29_BadShapeIsFailure ==
  [][\A i \in Inv :
       (BadShape(i) \/ BadShape(i)')
       => /\ \A r \in store : r \in store'
          /\ BadShape(i)'
             => /\ ~Hung(i)'
                /\ pc'[i] = "done" => outcome'[i] = CatchOutcome(kind'[i])
    ]_vars

\* The part of C29 the code does fulfil: without a results list nothing
\* changes and the catch block runs as on a transport failure.
C29_NoResultsListIsFailure ==
  [][\A i \in Inv :
       (why[i] = "malformed" \/ why'[i] = "malformed")
       => /\ \A r \in store : r \in store'
          /\ (pc'[i] = "done" /\ why'[i] = "malformed")
             => outcome'[i] = CatchOutcome(kind'[i])
    ]_vars

\* The stored pending records that are not in the batch of invocation i:
\* once i has read, the records saved after its read.
SavedAfterRead(i) ==
  {r \in GetPendingTranscripts(store) : r.uuid \notin UuidsOf(batch[i])}

DirectUploadDone ==
  /\ wf.who \in {"confirmSubmit", "finishRegistration"}
  /\ wf.fault = "none"
  /\ wf.posted
  /\ ~wf.asked

\* sync_status of the record the last workflow saved, in its object store.
SavedStatus ==
  IF wf.who = "finishRegistration" THEN VoiceStatusOf(wf.uuid)
  ELSE StatusOf(store, wf.uuid)

\* C31: once confirmSubmit or finishRegistration has saved its record and
\* uploaded it directly, the record is no longer 'pending' and no sync
\* attempt posts it.
C31_DirectUploadNotPending ==
  DirectUploadDone
  => /\ SavedStatus # "pending"
     /\ wf.who = "confirmSubmit"
        => \A i \in Inv : pc[i] = "fetch" => wf.uuid \notin UuidsOf(batch[i])

\* The second half alone: it fails as well, a sync attempt posts the
\* uploaded interview again.
C31_NotPostedAgain ==
  (DirectUploadDone /\ wf.who = "confirmSubmit")
  => \A i \in Inv : pc[i] = "fetch" => wf.uuid \notin UuidsOf(batch[i])

\* C32: a result whose uuid was not among the records submitted in the
\* batch changes the sync_status of no stored record, whatever that status
\* is.
C32_UnsubmittedResultIgnored ==
  [][\A i \in Inv : \A u \in UUIDs :
       (/\ Alone(i)
        /\ resp[i][u] # "none"
        /\ u \notin UuidsOf(batch[i])
        /\ StatusOf(store, u) # "absent")
       => StatusOf(store', u) = StatusOf(store, u)]_vars

(* ---------------- AutoSyncManager: episodes and destroy ---------------- *)

\* The 'online' listener of startMonitoring(): attemptSync() is called and,
\* navigator.onLine being true, awaits the callback.  The listener stays
\* registered for the life of the page.  One attempt at a time.
OnlineListener ==
  /\ ~online
  /\ inflight = 0
  /\ online' = TRUE
  /\ inflight' = inflight + 1
  /\ retries' = 0
  /\ fromOnline' = TRUE
  /\ UNCHANGED <<cb, retryCount, retryTimer, timers, destroyed>>
  /\ UNCHANGED <<syncVars, clientVars, routerVars, monitorVars, dbVars,
                 forageVars>>

\* The retry timeout fires: attemptSync() returns at once when offline and
\* awaits the callback when online.
RetryTimeout ==
  /\ timers > 0
  /\ inflight = 0
  /\ timers' = timers - 1
  /\ retryTimer' = "stale"
  /\ AttemptSync
  /\ fromOnline' = FALSE
  /\ UNCHANGED <<online, cb, retryCount, retries, destroyed>>
  /\ UNCHANGED <<syncVars, clientVars, routerVars, monitorVars, dbVars,
                 forageVars>>

\* await this.syncCallback() resolves.
AttemptResolves ==
  /\ inflight > 0
  /\ cb = "flaky"
  /\ inflight' = inflight - 1
  /\ retryCount' = 0
  /\ timers' = TimersAfterClear
  /\ retryTimer' = "null"
  /\ fromOnline' = FALSE
  /\ UNCHANGED <<online, cb, retries, destroyed>>
  /\ UNCHANGED <<syncVars, clientVars, routerVars, monitorVars, dbVars,
                 forageVars>>

\* await this.syncCallback() rejects: the catch block calls scheduleRetry().
AttemptRejects ==
  /\ inflight > 0
  /\ retries <= maxRetries
  /\ inflight' = inflight - 1
  /\ ScheduleRetry
  /\ fromOnline' = FALSE
  /\ UNCHANGED <<online, cb, destroyed>>
  /\ UNCHANGED <<syncVars, clientVars, routerVars, monitorVars, dbVars,
                 forageVars>>

\* destroy(): clearRetryTimer(), nothing else.
DestroyManager ==
  /\ ~destroyed
  /\ timers' = TimersAfterClear
  /\ retryTimer' = "null"
  /\ destroyed' = TRUE
  /\ UNCHANGED <<online, cb, retryCount, inflight, retries, fromOnline>>
  /\ UNCHANGED <<syncVars, clientVars, routerVars, monitorVars, dbVars,
                 forageVars>>

LifecycleNext ==
  \/ GoOffline
  \/ OnlineListener
  \/ RetryTimeout
  \/ AttemptResolves
  \/ AttemptRejects
  \/ DestroyManager

InitLifecycle ==
  SyncInit /\ AutoInit /\ ClientIdle /\ RouterIdle /\ Idle
SpecLifecycle == InitLifecycle /\ [][LifecycleNext]_vars

\* C33: the attempt the 'online' listener starts has a retry budget of its
\* own: when its callback fails, at least one retry is scheduled, whatever
\* retries earlier episodes consumed or left unfinished.
C33_FreshBudgetOnReconnect ==
  [][(/\ cb = "failing"
      /\ ~destroyed
      /\ fromOnline
      /\ inflight' < inflight)
     => (retryTimer' = "live" /\ timers' > 0)]_vars

\* The budget is not fresh either: the count of an earlier episode is
\* carried over, so the first retry of the new episode is not retry 1.
C33_CountRestarts ==
  [][(/\ cb = "failing"
      /\ ~destroyed
      /\ fromOnline
      /\ inflight' < inflight
      /\ retryTimer' = "live")
     => retryCount' = 1]_vars

\* What the code does fulfil: below the cap a failed attempt of the
\* 'online' listener schedules a retry.
C33_RetryBelowCap ==
  [][(/\ cb = "failing"
      /\ fromOnline
      /\ inflight' < inflight
      /\ retryCount < maxRetries)
     => retryTimer' = "live"]_vars

\* C34: after destroy() the manager does not call the sync callback again:
\* no attempt is started, by a timer or by the 'online' listener, and an
\* attempt that was in flight arms no retry timer when it fails.
C34_DestroyedIsSilent ==
  [][destroyed => (inflight' <= inflight /\ timers' <= timers)]_vars

\* The part of C34 the code does fulfil: destroy() leaves no timer armed.
C34_DestroyClearsTimer ==
  [][(~destroyed /\ destroyed') => (timers' = 0 /\ retryTimer' = "null")]_vars

\* C35: at most one retry timer is pending and retryCount is within
\* 0..maxRetries, in every state of every interleaving of online events,
\* explicit attempts, timer firings, overlapping completions and destroy.
C35_OneTimerBoundedCount ==
  /\ timers <= 1
  /\ retryCount \in 0..maxRetries
  /\ retryTimer = "live" <=> timers = 1

\* The count is at the cap with a timer pending while two attempts overlap.
C35_Witness ==
  /\ retryCount = maxRetries
  /\ timers = 1
  /\ inflight = MaxInflight

\* C36: once the database has been opened, by whichever opener, both
\* object stores exist, and so a save of either kind succeeds whenever the
\* open succeeds.
C36_BothStoresExist ==
  /\ dbVersion = 1 => {STORE_NAME, VOICE_STORE_NAME} \subseteq objectStores
  /\ (call.fn \in {"save", "saveTranscript"} /\ call.fault # "open")
     => call.settled = "resolved"

\* What the code does fulfil: the store of the first opener that has an
\* upgrade handler exists, and only that one.
C36_AtMostOneStore ==
  \/ objectStores = {}
  \/ objectStores = {STORE_NAME}
  \/ objectStores = {VOICE_STORE_NAME}

\* The cache entries of cs that hold a response that is not 2xx.
NotOkEntries(cs) ==
  {x \in (DOMAIN cs) \X UNION {cs[m] : m \in DOMAIN cs} :
     x[2] \in cs[x[1]] /\ x[2][2] # "ok"}

\* C37: the router puts only 2xx network responses into a cache, for static
\* requests as for API requests: no step adds an entry whose response is
\* not ok.
C37_OnlyOkCached ==
  [][NotOkEntries(caches') \subseteq NotOkEntries(caches)]_vars

\* The part of C37 the code does fulfil: the API strategy and the default
\* strategy add no entry that is not ok.
C37_ApiOnlyOkCached ==
  [][served'.class # "static"
     => NotOkEntries(caches') \subseteq NotOkEntries(caches)]_vars

(* ------------------- localforage store "interviews" ------------------- *)

\* The interviews handed to saveInterviewLocally.
Interviews == UUIDs

\* data.id as the caller may give it: {} when the field is absent,
\* otherwise the key.  Keys are the strings Date.now().toString() can
\* yield.
Ids == {{}} \cup {{k} : k \in 0..MaxClock}

\* const id = data.id || Date.now().toString()
KeyOf(id) == IF id = {} THEN now ELSE CHOOSE k \in id : TRUE

\* interviewDB.setItem(key, value): insert, or replace the value stored
\* under the key.
SetItem(db0, key, value) ==
  {e \in db0 : e[1] # key} \cup {<<key, value>>}

\* getPendingSyncData(): the values whose synced flag is not set.
GetPendingSyncData(db0) == {e[2] : e \in {x \in db0 : ~x[2].synced}}

\* saveInterviewLocally(data): the value {...data, synced: false} is set
\* under data.id or, without it, under the current time in milliseconds.
SaveInterviewLocally(d, id) ==
  /\ d \notin {e[2].data : e \in interviewDB} \cup savedNoId
  /\ interviewDB' = SetItem(interviewDB, KeyOf(id),
                            [data |-> d, synced |-> FALSE])
  /\ savedNoId' = IF id = {} THEN savedNoId \cup {d} ELSE savedNoId
  /\ UNCHANGED <<syncVars, autoVars, clientVars, routerVars, monitorVars,
                 dbVars, histVars>>

\* markAsSynced(id): the record under the key, if any, gets synced = true.
MarkAsSynced(key) ==
  /\ interviewDB' =
       {IF e[1] = key THEN <<e[1], [e[2] EXCEPT !.synced = TRUE]>> ELSE e :
          e \in interviewDB}
  /\ UNCHANGED savedNoId
  /\ UNCHANGED <<syncVars, autoVars, clientVars, routerVars, monitorVars,
                 dbVars, histVars>>

ForageNext ==
  \/ Tick
  \/ \E d \in Interviews, id \in Ids : SaveInterviewLocally(d, id)
  \/ \E key \in 0..MaxClock : MarkAsSynced(key)

SpecForage == Init /\ [][ForageNext]_vars

\* C38: every interview saved by a call without data.id stays stored as a
\* record of its own, and is returned by getPendingSyncData until it is
\* marked as synced.
C38_SavesDoNotReplace ==
  \A d \in savedNoId :
    /\ \E e \in interviewDB : e[2].data = d
    /\ \A e \in interviewDB :
         (e[2].data = d /\ ~e[2].synced)
         => e[2] \in GetPendingSyncData(interviewDB)

\* What the code does fulfil: a save under a key that is not in use
\* replaces nothing.
C38_FreshKeyKeepsAll ==
  [][\A d \in Interviews, id \in Ids :
       (SaveInterviewLocally(d, id)
        /\ KeyOf(id) \notin {e[1] : e \in interviewDB})
       => interviewDB \subseteq interviewDB']_vars

====
